---- MODULE Spec2Model ----
(***************************************************************************)
(* Model of the authclient event bridge (functions/contract.ts), of the    *)
(* member-event correlator and of the join workflow (the client's main      *)
(* script).                                                                 *)
(*                                                                          *)
(*   Spec      the whole program: the ledger grows, the bridge backfills    *)
(*             and listens kind by kind, the workflow runs main().          *)
(*   SpecCorr  waitForMemberEvent under arbitrary calls and member events.  *)
(*   SpecMod   sendModTrainProof under arbitrary arguments.                 *)
(***************************************************************************)
EXTENDS Integers, Sequences, FiniteSets, TLC

\* ------------------------------------------------------------------ bounds
\* Longest ledger event log explored.
MaxChain == 3
\* Number of waitForMemberEvent calls explored in SpecCorr.
MaxWaits == 3
\* Longest deltaw array explored in SpecMod.
MaxDelta == 2

\* ------------------------------------------------------------- value sets
\* Group ids and identity commitments as the contract emits them (uint256).
Groups == {7}
Commitments == {1, 2}
\* The commitment of the identity that main() derives from the credential.
MyCommitment == 1
\* An argument the caller left out (identityCommitment?: bigint): no bigint.
Undefined == -1
\* No error.
None == "none"
\* No group id (yet).
NoGroup == <<>>

Range(s) == {s[i] : i \in DOMAIN s}

\* ------------------------------------------------------------ conversions
\* bigint.toString(): the decimal digits, most significant first.
RECURSIVE ToStr(_)
ToStr(n) == IF n < 10 THEN <<n>> ELSE Append(ToStr(n \div 10), n % 10)

\* BigInt(string): the number a decimal string denotes.
RECURSIVE BigIntOf(_)
BigIntOf(s) ==
    IF Len(s) = 0 THEN 0
    ELSE 10 * BigIntOf(SubSeq(s, 1, Len(s) - 1)) + s[Len(s)]

GroupStrs == {ToStr(g) : g \in Groups}

\* ------------------------------------------------- mirror (groupStorage)
\* The mirror maps a group id string to the ordered list of commitment
\* strings; a group without an entry reads as the empty list.
EmptyMirror == [g \in GroupStrs |-> <<>>]

\* addMember(members, groupId, commitment): no-op if already present.
addMember(m, g, c) ==
    IF c \in Range(m[g]) THEN m ELSE [m EXCEPT ![g] = Append(@, c)]

\* removeMember(members, groupId, commitment): no-op if absent.
removeMember(m, g, c) ==
    [m EXCEPT ![g] = SelectSeq(@, LAMBDA x : x # c)]

\* updateMember(members, groupId, old, new): replaces old by new in place;
\* if old is absent it is an add of new.
RECURSIVE Replaced(_, _, _)
Replaced(seq, o, n) ==
    IF Len(seq) = 0 THEN <<>>
    ELSE <<IF Head(seq) = o THEN n ELSE Head(seq)>> \o Replaced(Tail(seq), o, n)

updateMember(m, g, o, n) ==
    IF o \in Range(m[g])
    THEN [m EXCEPT ![g] = Replaced(@, o, n)]
    ELSE addMember(m, g, n)

\* ------------------------------------------------------------ the ledger
Kinds == <<"GroupCreated", "MemberAdded", "MembersAdded", "MemberRemoved", "MemberUpdated">>
NKinds == Len(Kinds)

\* A ledger event: cs holds the commitment(s) it carries (MemberUpdated: the
\* old one), nw the new commitment of a MemberUpdated (0 otherwise).  The
\* index arguments are left out: no handler reads them.  pos is the event's
\* position in the log (its block and log index).
Ev(k, g, cs, nw, pos) == [kind |-> k, g |-> g, cs |-> cs, nw |-> nw, pos |-> pos]

\* The contract's own state after a log: the created groups and, per group,
\* the commitments that are members.
RECURSIVE ChainGroups(_)
ChainGroups(log) ==
    IF Len(log) = 0 THEN {}
    ELSE LET e == log[Len(log)]
             rest == ChainGroups(SubSeq(log, 1, Len(log) - 1))
         IN  IF e.kind = "GroupCreated" THEN rest \cup {e.g} ELSE rest

RECURSIVE ChainMembers(_, _)
ChainMembers(log, g) ==
    IF Len(log) = 0 THEN {}
    ELSE LET e == log[Len(log)]
             rest == ChainMembers(SubSeq(log, 1, Len(log) - 1), g)
         IN  IF e.g # g THEN rest
             ELSE CASE e.kind = "MemberAdded" -> rest \cup Range(e.cs)
                    [] e.kind = "MembersAdded" -> rest \cup Range(e.cs)
                    [] e.kind = "MemberRemoved" -> rest \ Range(e.cs)
                    [] e.kind = "MemberUpdated" -> (rest \ Range(e.cs)) \cup {e.nw}
                    [] OTHER -> rest

\* contract.hasMember(groupId, commitment)
hasMember(log, g, c) == c \in ChainMembers(log, g)

\* The batches MembersAdded can carry.
Batches == {<<c>> : c \in Commitments} \cup
           {<<c, d>> : <<c, d>> \in {p \in Commitments \X Commitments : p[1] # p[2]}}

\* The events the contract can emit next (its require() rules).
NextEvents(log) ==
    LET made == ChainGroups(log)
        pos == Len(log) + 1
    IN
    {Ev("GroupCreated", g, <<>>, 0, pos) : g \in Groups \ made}
    \cup UNION {
        LET in == ChainMembers(log, g) IN
        {Ev("MemberAdded", g, <<c>>, 0, pos) : c \in Commitments \ in}
        \cup {Ev("MembersAdded", g, b, 0, pos) : b \in {x \in Batches : Range(x) \cap in = {}}}
        \cup {Ev("MemberRemoved", g, <<c>>, 0, pos) : c \in in}
        \cup {Ev("MemberUpdated", g, <<p[1]>>, p[2], pos) : p \in in \X (Commitments \ in)}
        : g \in made}

\* ---------------------------------------------------------------- state
VARIABLES
    chain,        \* the ledger's event log, in position order
    bk,           \* bridge: index in Kinds of the kind processEvent is at (NKinds + 1: all done)
    bphase,       \* bridge: "query" (queryFilter outstanding), "loop" (answer taken), "failed"
    past,         \* bridge: the answer of the outstanding queryFilter (pastEvents)
    nQuery,       \* bridge: number of queryFilter calls issued so far
    subs,         \* the kinds (indices in Kinds) contract.on has subscribed
    live,         \* per kind: the events its listener has still to deliver, oldest first
    members,      \* the bridge's in-memory mirror
    file,         \* the persisted mirror (saveMembers / loadMembers)
    groupIds,     \* the persisted group ids (saveGroupId / getAllGroupIds)
    gcOn,         \* a once("GroupCreated") listener is attached (waitForGroupCreated)
    gcVal,        \* the group id that listener resolved with, or NoGroup
    isWaitingForMemberEvent,
    lst,          \* blockchainEvents: member event name -> ids of the attached wait handlers
    waits,        \* every waitForMemberEvent call so far
    had,          \* history: per group, every commitment string the mirror has held
    applied,      \* history: the positions of the events this run's handlers were called on, in call order
    prior,        \* history: how many ledger events an earlier run had mirrored before this start
    emitted,      \* history: the member events the bridge emitted, with the mirror's state then
    cpc,          \* workflow: where run()/main() stands
    gid,          \* workflow: main's groupId
    alreadyMember,\* workflow: what isAlreadyMember returned (FALSE before)
    group,        \* workflow: the member list loaded from the mirror
    deltaw,       \* sendModTrainProof's deltaw argument
    message,      \* sendModTrainProof's canonical string array (empty before)
    nGen,         \* number of generateProof calls
    posts,        \* every HTTP request sent, with its outcome
    err           \* the error that ended the workflow, or None

vars == <<chain, bk, bphase, past, nQuery, subs, live, members, file, groupIds, gcOn, gcVal,
          isWaitingForMemberEvent, lst, waits, had, applied, prior, emitted, cpc, gid, alreadyMember, group,
          deltaw, message, nGen, posts, err>>

bridgeVars == <<bk, bphase, past, nQuery, subs, live>>
busVars == <<members, file, groupIds, gcOn, gcVal, isWaitingForMemberEvent, lst, waits, had,
             applied, prior, emitted>>
flowVars == <<cpc, gid, alreadyMember, group, deltaw, message, nGen, posts, err>>

\* ------------------------------------------------ the event bus and waits
MemberEventNames == {"MemberAddedProcessed", "MemberRemovedProcessed", "MemberUpdatedProcessed"}

\* What the handlers and listeners read and write, as one value; requested
\* (read only) tells whether main has sent its add-member request.
Bus == [members |-> members, file |-> file, groupIds |-> groupIds, gcOn |-> gcOn,
        gcVal |-> gcVal, isWaiting |-> isWaitingForMemberEvent, lst |-> lst,
        waits |-> waits, had |-> had, applied |-> applied, prior |-> prior,
        emitted |-> emitted,
        requested |-> \E i \in DOMAIN posts : posts[i].url = "add-member"]

SetBus(s) ==
    /\ members' = s.members
    /\ file' = s.file
    /\ groupIds' = s.groupIds
    /\ gcOn' = s.gcOn
    /\ gcVal' = s.gcVal
    /\ isWaitingForMemberEvent' = s.isWaiting
    /\ lst' = s.lst
    /\ waits' = s.waits
    /\ had' = s.had
    /\ applied' = s.applied
    /\ prior' = s.prior
    /\ emitted' = s.emitted

\* !identityCommitment: true of an omitted argument and of 0n.
Falsy(c) == c = Undefined \/ c = 0

\* waitForMemberEvent(groupId, identityCommitment).  A wait records: its
\* arguments, whether a handler was attached (reg), whether its promise is
\* resolved (done), how often its handler reached resolve() (fired), and as
\* history whether a member event with its own group id and commitment was
\* emitted since the call (matched), and the name of the bridge's event
\* whose emit resolved it (by).
waitForMemberEvent(s, g, c) ==
    LET id == Len(s.waits) + 1 IN
    IF s.isWaiting
    THEN [s EXCEPT !.waits = Append(@, [g |-> g, c |-> c, reg |-> FALSE, done |-> TRUE,
                                        fired |-> 0, matched |-> FALSE, by |-> None])]
    ELSE [s EXCEPT !.isWaiting = TRUE,
                   !.waits = Append(@, [g |-> g, c |-> c, reg |-> TRUE, done |-> FALSE,
                                        fired |-> 0, matched |-> FALSE, by |-> None]),
                   !.lst = [n \in MemberEventNames |-> @[n] \cup {id}]]

\* Mutant: the handler forgets blockchainEvents.off("MemberUpdatedProcessed").
handlerKeepsUpdated(s, i, eg, ec) ==
    LET w == s.waits[i] IN
    IF eg = w.g /\ (Falsy(w.c) \/ ec = ToStr(w.c))
    THEN [s EXCEPT !.lst = [n \in MemberEventNames |->
                               IF n = "MemberUpdatedProcessed" THEN @[n] ELSE @[n] \ {i}],
                   !.isWaiting = FALSE,
                   !.waits[i].done = TRUE,
                   !.waits[i].fired = @ + 1]
    ELSE s

\* The handler of wait i, called with an emitted (groupId, commitment).
handler(s, i, eg, ec) ==
    LET w == s.waits[i] IN
    IF eg = w.g /\ (Falsy(w.c) \/ ec = ToStr(w.c))
    THEN [s EXCEPT !.lst = [n \in MemberEventNames |-> @[n] \ {i}],
                   !.isWaiting = FALSE,
                   !.waits[i].done = TRUE,
                   !.waits[i].fired = @ + 1]
    ELSE s

RECURSIVE CallAll(_, _, _, _)
CallAll(s, ids, eg, ec) ==
    IF ids = {} THEN s
    ELSE LET i == CHOOSE x \in ids : \A y \in ids : x <= y
         IN  CallAll(handler(s, i, eg, ec), ids \ {i}, eg, ec)

\* History: the waits whose own (group, commitment) this member event carries.
RECURSIVE Marked(_, _, _)
Marked(ws, eg, ec) ==
    IF Len(ws) = 0 THEN <<>>
    ELSE LET w == Head(ws) IN
         <<IF w.g = eg /\ w.c # Undefined /\ ToStr(w.c) = ec
           THEN [w EXCEPT !.matched = TRUE] ELSE w>> \o Marked(Tail(ws), eg, ec)

NoteMatch(s, eg, ec) == [s EXCEPT !.waits = Marked(@, eg, ec)]

\* blockchainEvents.emit(name, groupId, commitment) for a member event: every
\* handler attached to name when the emit starts is called.
emitMember(s, name, eg, ec) == CallAll(NoteMatch(s, eg, ec), s.lst[name], eg, ec)

\* blockchainEvents.emit("GroupCreated", idStr): the once-listener of
\* waitForGroupCreated, if attached, resolves with idStr and is detached.
emitGroupCreated(s, idStr) ==
    IF s.gcOn THEN [s EXCEPT !.gcOn = FALSE, !.gcVal = idStr] ELSE s

\* saveGroupId(idStr)
saveGroupId(ids, idStr) == IF idStr \in Range(ids) THEN ids ELSE Append(ids, idStr)

\* saveMembers(members)
saveMembers(s) == [s EXCEPT !.file = s.members]

\* History: what the mirror holds now has been held.
NoteHad(s) == [s EXCEPT !.had = [g \in GroupStrs |-> @[g] \cup Range(s.members[g])]]

\* History: the bridge emits a member event; held tells whether the
\* in-memory mirror of the group holds the commitment at that moment, after
\* whether main's add-member request had been sent by then.
NoteEmit(s, name, g, c) ==
    [s EXCEPT !.emitted = @ \cup {[name |-> name, g |-> g, c |-> c,
                                   held |-> c \in Range(s.members[g]),
                                   after |-> s.requested]}]

\* History: the waits that an emit of name resolved (pending in before).
RECURSIVE ResolvedBy(_, _, _)
ResolvedBy(before, now, name) ==
    IF Len(now) = 0 THEN <<>>
    ELSE <<IF Len(before) > 0 /\ ~Head(before).done /\ Head(now).done
           THEN [Head(now) EXCEPT !.by = name] ELSE Head(now)>>
         \o ResolvedBy(IF Len(before) > 0 THEN Tail(before) ELSE <<>>, Tail(now), name)

\* The bridge's blockchainEvents.emit(name, groupId, commitment).
publish(s, name, g, c) ==
    LET s1 == emitMember(NoteEmit(s, name, g, c), name, g, c)
    IN  [s1 EXCEPT !.waits = ResolvedBy(s.waits, @, name)]

\* ------------------------------------------- the bridge's event handlers
onGroupCreated(s, e) ==
    LET idStr == ToStr(e.g) IN
    emitGroupCreated([s EXCEPT !.groupIds = saveGroupId(@, idStr)], idStr)

\* Mutant: the MemberAdded handler pushes the commitment without addMember.
onMemberAddedPush(s, e) ==
    LET g == ToStr(e.g)
        c == ToStr(e.cs[1])
        s1 == NoteHad(saveMembers([s EXCEPT !.members[g] = Append(@, c)]))
    IN  publish(s1, "MemberAddedProcessed", g, c)

onMemberAdded(s, e) ==
    LET g == ToStr(e.g)
        c == ToStr(e.cs[1])
        s1 == NoteHad(saveMembers([s EXCEPT !.members = addMember(@, g, c)]))
    IN  publish(s1, "MemberAddedProcessed", g, c)

RECURSIVE AddEach(_, _, _)
AddEach(m, g, cs) ==
    IF Len(cs) = 0 THEN m ELSE AddEach(addMember(m, g, ToStr(Head(cs))), g, Tail(cs))

onMembersAdded(s, e) ==
    NoteHad(saveMembers([s EXCEPT !.members = AddEach(@, ToStr(e.g), e.cs)]))

\* Mutant: the MemberRemoved handler emits before it removes.
onMemberRemovedEmitFirst(s, e) ==
    LET g == ToStr(e.g)
        c == ToStr(e.cs[1])
        s1 == publish(s, "MemberRemovedProcessed", g, c)
    IN  NoteHad(saveMembers([s1 EXCEPT !.members = removeMember(@, g, c)]))

onMemberRemoved(s, e) ==
    LET g == ToStr(e.g)
        c == ToStr(e.cs[1])
        s1 == NoteHad(saveMembers([s EXCEPT !.members = removeMember(@, g, c)]))
    IN  publish(s1, "MemberRemovedProcessed", g, c)

onMemberUpdated(s, e) ==
    LET g == ToStr(e.g)
        o == ToStr(e.cs[1])
        n == ToStr(e.nw)
        s1 == NoteHad(saveMembers([s EXCEPT !.members = updateMember(@, g, o, n)]))
    IN  publish(s1, "MemberUpdatedProcessed", g, n)

\* History: a handler is called on the event at position e.pos.
NoteApplied(s, e) == [s EXCEPT !.applied = Append(@, e.pos)]

\* The handler startBlockchainListeners passes to processEvent for a kind,
\* called on an event.
handle(s, e) ==
    LET s0 == NoteApplied(s, e) IN
    CASE e.kind = "GroupCreated" -> onGroupCreated(s0, e)
      [] e.kind = "MemberAdded" -> onMemberAdded(s0, e)
      [] e.kind = "MembersAdded" -> onMembersAdded(s0, e)
      [] e.kind = "MemberRemoved" -> onMemberRemoved(s0, e)
      [] e.kind = "MemberUpdated" -> onMemberUpdated(s0, e)

\* for (const e of pastEvents) handler(...e.args)
RECURSIVE handleAll(_, _)
handleAll(s, es) == IF Len(es) = 0 THEN s ELSE handleAll(handle(s, Head(es)), Tail(es))

\* contract.queryFilter(eventName, fromBlock, "latest"), answered when the
\* ledger stood at position upTo: the events of that kind, in position order.
queryFilter(log, kind, upTo) == SelectSeq(SubSeq(log, 1, upTo), LAMBDA e : e.kind = kind)

\* The mirror that results from applying a log once, in position order.
ApplyAll(log) == handleAll([members |-> EmptyMirror, file |-> EmptyMirror, groupIds |-> <<>>,
                            gcOn |-> FALSE, gcVal |-> NoGroup, isWaiting |-> FALSE,
                            lst |-> [n \in MemberEventNames |-> {}], waits |-> <<>>,
                            had |-> [g \in GroupStrs |-> {}], applied |-> <<>>,
                            prior |-> 0, emitted |-> {}, requested |-> FALSE], log)

\* ------------------------------------------------------------ the bridge
KindIndex(kind) == CHOOSE k \in 1..NKinds : Kinds[k] = kind

\* processEvent, first half: the queryFilter request is answered from the
\* ledger as it stands now; the answer reaches the bridge in a later step.
QueryAnswered ==
    /\ bphase = "query" /\ bk <= NKinds
    /\ past' = queryFilter(chain, Kinds[bk], Len(chain))
    /\ bphase' = "loop"
    /\ UNCHANGED <<chain, bk, nQuery, subs, live, busVars, flowVars>>

\* The queryFilter request fails: processEvent rejects, and with it
\* startBlockchainListeners; nothing catches it and no later kind is started.
QueryFailed ==
    /\ bphase = "query" /\ bk <= NKinds
    /\ bphase' = "failed"
    /\ UNCHANGED <<chain, bk, past, nQuery, subs, live, busVars, flowVars>>

\* processEvent, second half, in one turn of the event loop: the handler is
\* called on every past event of the kind, then contract.on subscribes the
\* kind from the ledger's present position, and the next kind's query starts.
ProcessPast ==
    /\ bphase = "loop"
    /\ SetBus(handleAll(Bus, past))
    /\ subs' = subs \cup {bk}
    /\ bk' = bk + 1
    /\ bphase' = "query"
    /\ past' = <<>>
    /\ nQuery' = IF bk < NKinds THEN nQuery + 1 ELSE nQuery
    /\ UNCHANGED <<chain, live, flowVars>>

\* contract.on(eventName, ...): the listener of kind k delivers its next event.
LiveEvent(k) ==
    /\ Len(live[k]) > 0
    /\ SetBus(handle(Bus, Head(live[k])))
    /\ live' = [live EXCEPT ![k] = Tail(@)]
    /\ UNCHANGED <<chain, bk, bphase, past, nQuery, subs, flowVars>>

\* The contract emits an event: it joins the log, and the listener of its
\* kind, if subscribed by now, will deliver it.
ChainAppend ==
    /\ Len(chain) < MaxChain
    /\ \E e \in NextEvents(chain) :
          /\ chain' = Append(chain, e)
          /\ live' = IF KindIndex(e.kind) \in subs
                     THEN [live EXCEPT ![KindIndex(e.kind)] = Append(@, e)]
                     ELSE live
    /\ UNCHANGED <<bk, bphase, past, nQuery, subs, busVars, flowVars>>

\* ---------------------------------------------------------- the workflow
\* deltaw elements: t is typeof the element, digits its decimal spelling
\* (a number that is no integer has int = FALSE).
Item(t, digits, int) == [t |-> t, digits |-> digits, int |-> int]
BigIntItem(n) == Item("bigint", ToStr(n), TRUE)

\* Number.MAX_SAFE_INTEGER, 2^53 - 1, in decimal digits.
MaxSafeDigits == <<9, 0, 0, 7, 1, 9, 9, 2, 5, 4, 7, 4, 0, 9, 9, 1>>

RECURSIVE LexLeq(_, _)
LexLeq(a, b) ==
    IF Len(a) = 0 THEN TRUE
    ELSE IF Head(a) # Head(b) THEN Head(a) < Head(b)
    ELSE LexLeq(Tail(a), Tail(b))

\* Number.isSafeInteger(item)
isSafeInteger(item) ==
    /\ item.int
    /\ \/ Len(item.digits) < Len(MaxSafeDigits)
       \/ Len(item.digits) = Len(MaxSafeDigits) /\ LexLeq(item.digits, MaxSafeDigits)

\* Mutant: the map callback without its Number.isSafeInteger check.
itemErrorNoSafeCheck(item) ==
    CASE item.t = "bigint" -> None
      [] item.t = "number" -> None
      [] item.t = "string" -> None
      [] OTHER -> "Unsupported deltaw element type"

\* The error the deltaw.map callback throws on an element, or None.
itemError(item) ==
    CASE item.t = "bigint" -> None
      [] item.t = "number" -> IF isSafeInteger(item) THEN None ELSE "Unsafe number in deltaw"
      [] item.t = "string" -> None
      [] OTHER -> "Unsupported deltaw element type"

\* deltaw.map(...): the first error thrown, or None.
mapError(d) ==
    LET bad == {i \in DOMAIN d : itemError(d[i]) # None} IN
    IF bad = {} THEN None ELSE itemError(d[CHOOSE i \in bad : \A j \in bad : i <= j])

\* The string array deltaw.map(...) returns when nothing throws.
RECURSIVE stringArray(_)
stringArray(d) == IF Len(d) = 0 THEN <<>> ELSE <<Head(d).digits>> \o stringArray(Tail(d))

\* new Group(groupMembers).indexOf(commitment): members are read as bigints;
\* -1 when absent.
indexOf(grp, c) ==
    LET at == {i \in DOMAIN grp : BigIntOf(grp[i]) = c} IN
    IF at = {} THEN -1 ELSE (CHOOSE i \in at : \A j \in at : i <= j) - 1

Fail(msg) == cpc' = "failed" /\ err' = msg

\* waitForGroupCreated resolved: main(groupId) starts.
GroupCreatedSeen ==
    /\ cpc = "waitGroup" /\ gcVal # NoGroup
    /\ gid' = gcVal
    /\ cpc' = "check"
    /\ UNCHANGED <<chain, bridgeVars, busVars, alreadyMember, group, deltaw, message, nGen, posts, err>>

\* Mutant: main asks for admission whatever isAlreadyMember returned.
afterCheckAlwaysAdds(result) == "addMember"

\* main: if (!alreadyMember) { addMember; waitForMemberEvent } else { log }
afterCheck(result) == IF result THEN "load" ELSE "addMember"

\* main: const alreadyMember = await isAlreadyMember(groupId, commitment)
IsAlreadyMember ==
    /\ cpc = "check"
    /\ \/ /\ alreadyMember' = hasMember(chain, BigIntOf(gid), MyCommitment)
          /\ cpc' = afterCheck(alreadyMember')
          /\ err' = err
       \/ /\ Fail("hasMember failed")
          /\ alreadyMember' = alreadyMember
    /\ UNCHANGED <<chain, bridgeVars, busVars, gid, group, deltaw, message, nGen, posts>>

\* An HTTP request and whether it succeeded.
Post(url, ok) == [url |-> url, ok |-> ok]

\* addMember(groupId, commitment): the request is sent; ok is the outcome it
\* will have (a failure is caught and logged).  main stays suspended at
\* `await addMember(...)` until the response is handled, in WaitCall.
AddMemberStep ==
    /\ cpc = "addMember"
    /\ \E ok \in BOOLEAN : posts' = Append(posts, Post("add-member", ok))
    /\ cpc' = "waitCall"
    /\ UNCHANGED <<chain, bridgeVars, busVars, gid, alreadyMember, group, deltaw, message, nGen, err>>

\* The add-member response is handled, main's await ends, and in the same
\* turn waitForMemberEvent(groupId, commitment) is called.
WaitCall ==
    /\ cpc = "waitCall"
    /\ SetBus(waitForMemberEvent(Bus, gid, MyCommitment))
    /\ cpc' = "waiting"
    /\ UNCHANGED <<chain, bridgeVars, gid, alreadyMember, group, deltaw, message, nGen, posts, err>>

\* main's await on that promise ends.  The continuation is a step of its own:
\* it runs after the turn that resolved the promise (a whole backfill loop,
\* or one live delivery), and loadMembers may itself suspend.
WaitResolved ==
    /\ cpc = "waiting" /\ waits[Len(waits)].done
    /\ cpc' = "load"
    /\ UNCHANGED <<chain, bridgeVars, busVars, gid, alreadyMember, group, deltaw, message, nGen, posts, err>>

\* Mutant: sendJoinProof without its index check.
joinErrorNone(grp, c) == None

\* sendJoinProof, up to generateProof: the index check.
joinError(grp, c) == IF indexOf(grp, c) = -1 THEN "Commitment not found in the group" ELSE None

\* main: loadMembers(), new Group(members[groupId]), and sendJoinProof up to
\* its first await.
LoadAndCheck ==
    /\ cpc = "load"
    /\ group' = file[gid]
    /\ IF joinError(group', MyCommitment) # None
       THEN Fail(joinError(group', MyCommitment))
       ELSE cpc' = "joinGen" /\ err' = err
    /\ UNCHANGED <<chain, bridgeVars, busVars, gid, alreadyMember, deltaw, message, nGen, posts>>

\* sendJoinProof: generateProof is called; it returns, or it throws.
JoinGenerate ==
    /\ cpc = "joinGen"
    /\ nGen' = nGen + 1
    /\ \/ cpc' = "joinPost" /\ err' = err
       \/ Fail("generateProof failed")
    /\ UNCHANGED <<chain, bridgeVars, busVars, gid, alreadyMember, group, deltaw, message, posts>>

\* Mutant: the join-proof request without its .catch: a failure ends main.
afterJoinPostAborts(ok) == IF ok THEN "mod" ELSE "failed"

\* Where main goes after the join-proof request, by the request's outcome:
\* .then and .catch both settle the awaited promise.
afterJoinPost(ok) == "mod"

\* Mutant: sendJoinProof does not wait for its request: main goes on while
\* the request is in flight.
JoinPostNotAwaited ==
    /\ cpc = "joinPost"
    /\ cpc' = "mod"
    /\ UNCHANGED <<chain, bridgeVars, busVars, gid, alreadyMember, group, deltaw, message, nGen, posts, err>>

\* sendJoinProof: the join-proof request; a failure is caught and logged.
JoinPost ==
    /\ cpc = "joinPost"
    /\ \E ok \in BOOLEAN :
          /\ posts' = Append(posts, Post("join-proof", ok))
          /\ cpc' = afterJoinPost(ok)
    /\ UNCHANGED <<chain, bridgeVars, busVars, gid, alreadyMember, group, deltaw, message, nGen, err>>

\* sendModTrainProof up to generateProof: the index check, then deltaw.map.
modError(grp, c, d) ==
    IF indexOf(grp, c) = -1 THEN "Commitment not found in the group" ELSE mapError(d)

ModStart ==
    /\ cpc = "mod"
    /\ IF modError(group, MyCommitment, deltaw) # None
       THEN Fail(modError(group, MyCommitment, deltaw)) /\ message' = message
       ELSE cpc' = "modGen" /\ message' = stringArray(deltaw) /\ err' = err
    /\ UNCHANGED <<chain, bridgeVars, busVars, gid, alreadyMember, group, deltaw, nGen, posts>>

\* sendModTrainProof: generateProof is called; it returns, or it throws.
ModGenerate ==
    /\ cpc = "modGen"
    /\ nGen' = nGen + 1
    /\ \/ cpc' = "modPost" /\ err' = err
       \/ Fail("generateProof failed")
    /\ UNCHANGED <<chain, bridgeVars, busVars, gid, alreadyMember, group, deltaw, message, posts>>

\* sendModTrainProof: the modtrain-proof request; a failure is caught and logged.
ModPost ==
    /\ cpc = "modPost"
    /\ \E ok \in BOOLEAN : posts' = Append(posts, Post("modtrain-proof", ok))
    /\ cpc' = "done"
    /\ UNCHANGED <<chain, bridgeVars, busVars, gid, alreadyMember, group, deltaw, message, nGen, err>>

\* ------------------------------------------------------ the whole program
\* The ledger and the storage a start can find: no group yet, or what an
\* earlier run mirrored.
InitChains ==
    {<<>>,
     <<Ev("GroupCreated", 7, <<>>, 0, 1)>>,
     <<Ev("GroupCreated", 7, <<>>, 0, 1), Ev("MemberAdded", 7, <<MyCommitment>>, 0, 2)>>,
     <<Ev("GroupCreated", 7, <<>>, 0, 1), Ev("MemberAdded", 7, <<MyCommitment>>, 0, 2),
       Ev("MemberUpdated", 7, <<MyCommitment>>, 2, 3)>>}

\* After the modules are loaded: the bridge's first query is outstanding, and
\* run() has read getAllGroupIds() and either waits for GroupCreated or has
\* started main with the first stored group id.
Init ==
    /\ \E c0 \in InitChains :
          /\ chain = c0
          /\ members = ApplyAll(c0).members
          /\ file = ApplyAll(c0).members
          /\ groupIds = ApplyAll(c0).groupIds
          /\ had = ApplyAll(c0).had
          /\ prior = Len(c0)
    /\ applied = <<>> /\ emitted = {}
    /\ bk = 1 /\ bphase = "query" /\ past = <<>> /\ nQuery = 1
    /\ subs = {}
    /\ live = [k \in 1..NKinds |-> <<>>]
    /\ gcOn = (groupIds = <<>>)
    /\ gcVal = NoGroup
    /\ isWaitingForMemberEvent = FALSE
    /\ lst = [n \in MemberEventNames |-> {}]
    /\ waits = <<>>
    /\ cpc = IF groupIds = <<>> THEN "waitGroup" ELSE "check"
    /\ gid = IF groupIds = <<>> THEN NoGroup ELSE groupIds[1]
    /\ alreadyMember = FALSE
    /\ group = <<>>
    /\ deltaw = <<BigIntItem(1), BigIntItem(2), BigIntItem(3)>>
    /\ message = <<>>
    /\ nGen = 0
    /\ posts = <<>>
    /\ err = None

Next ==
    \/ ChainAppend
    \/ QueryAnswered
    \/ QueryFailed
    \/ ProcessPast
    \/ \E k \in 1..NKinds : LiveEvent(k)
    \/ GroupCreatedSeen
    \/ IsAlreadyMember
    \/ AddMemberStep
    \/ WaitCall
    \/ WaitResolved
    \/ LoadAndCheck
    \/ JoinGenerate
    \/ JoinPost
    \/ ModStart
    \/ ModGenerate
    \/ ModPost

Spec == Init /\ [][Next]_vars

\* The event loop runs what is ready: an answered query's continuation and a
\* delivered event's listener on the bridge's side, the continuation of a
\* settled await on main's side.  Nothing obliges the ledger to emit
\* another event, nor a query to fail.
BridgeSteps == QueryAnswered \/ ProcessPast \/ \E k \in 1..NKinds : LiveEvent(k)

FlowSteps ==
    \/ GroupCreatedSeen \/ IsAlreadyMember \/ AddMemberStep \/ WaitCall \/ WaitResolved
    \/ LoadAndCheck \/ JoinGenerate \/ JoinPost \/ ModStart \/ ModGenerate \/ ModPost

SpecLive == Spec /\ WF_vars(BridgeSteps) /\ WF_vars(FlowSteps)

\* --------------------------------------- waitForMemberEvent on its own
\* The arguments and events explored: two group ids, and as commitment an
\* omitted argument, 0n and two identities.
CorrGroups == {ToStr(7), ToStr(8)}
CorrArgs == {Undefined, 0, 1, 2}
CorrEmitted == {ToStr(0), ToStr(1), ToStr(2)}

\* Nothing of the bridge or the workflow runs.
Idle ==
    /\ chain = <<>>
    /\ bk = NKinds + 1 /\ bphase = "off" /\ past = <<>> /\ nQuery = 0
    /\ subs = {}
    /\ live = [k \in 1..NKinds |-> <<>>]
    /\ members = EmptyMirror /\ file = EmptyMirror /\ groupIds = <<>>
    /\ had = [g \in GroupStrs |-> {}]
    /\ applied = <<>> /\ prior = 0 /\ emitted = {}
    /\ gcOn = FALSE /\ gcVal = NoGroup
    /\ isWaitingForMemberEvent = FALSE
    /\ lst = [n \in MemberEventNames |-> {}]
    /\ waits = <<>>
    /\ gid = NoGroup /\ alreadyMember = FALSE
    /\ message = <<>> /\ nGen = 0 /\ posts = <<>> /\ err = None

InitCorr ==
    /\ Idle
    /\ cpc = "off" /\ group = <<>> /\ deltaw = <<>>

\* Some caller calls waitForMemberEvent(g, c).
CallWait ==
    /\ Len(waits) < MaxWaits
    /\ \E g \in CorrGroups, c \in CorrArgs : SetBus(waitForMemberEvent(Bus, g, c))
    /\ UNCHANGED <<chain, bridgeVars, flowVars>>

\* The bridge emits a member event.
EmitEvent ==
    /\ \E name \in MemberEventNames, g \in CorrGroups, c \in CorrEmitted :
          SetBus(emitMember(Bus, name, g, c))
    /\ UNCHANGED <<chain, bridgeVars, flowVars>>

NextCorr == CallWait \/ EmitEvent

SpecCorr == InitCorr /\ [][NextCorr]_vars

\* ----------------------------------------- sendModTrainProof on its own
\* deltaw elements explored: bigints (one beyond 2^53), numbers (safe, the
\* largest safe one, 2^53, and 1.5), a numeric string and a BigNumber object.
ModItems ==
    {BigIntItem(1),
     Item("bigint", <<9, 0, 0, 7, 1, 9, 9, 2, 5, 4, 7, 4, 0, 9, 9, 2>>, TRUE),
     Item("number", ToStr(1), TRUE),
     Item("number", MaxSafeDigits, TRUE),
     Item("number", <<9, 0, 0, 7, 1, 9, 9, 2, 5, 4, 7, 4, 0, 9, 9, 2>>, TRUE),
     Item("number", <<1, 5>>, FALSE),
     Item("string", ToStr(2), TRUE),
     Item("object", ToStr(3), TRUE)}

RECURSIVE SeqsUpTo(_, _)
SeqsUpTo(S, n) ==
    IF n = 0 THEN {<<>>}
    ELSE LET shorter == SeqsUpTo(S, n - 1)
         IN  shorter \cup {Append(s, x) : s \in shorter, x \in S}

\* Group snapshots explored: without and with the caller's commitment.
ModGroups == {<<>>, <<ToStr(2)>>, <<ToStr(MyCommitment)>>, <<ToStr(2), ToStr(MyCommitment)>>}

InitMod ==
    /\ Idle
    /\ cpc = "mod"
    /\ group \in ModGroups
    /\ deltaw \in SeqsUpTo(ModItems, MaxDelta)

NextMod == ModStart \/ ModGenerate \/ ModPost

SpecMod == InitMod /\ [][NextMod]_vars

\* ================================================================ claims
Mine == ToStr(MyCommitment)
NotFound == "Commitment not found in the group"
PostsTo(url) == {i \in DOMAIN posts : posts[i].url = url}

\* The bridge has processed every event it is going to process: every kind
\* is backfilled and subscribed, and no listener has an event left.
BridgeSettled == bk = NKinds + 1 /\ \A k \in 1..NKinds : live[k] = <<>>

\* The workflow has read the mirror and built the group from it.
MirrorRead ==
    \/ cpc \in {"joinGen", "joinPost", "mod", "modGen", "modPost", "done"}
    \/ cpc = "failed" /\ err = NotFound

\* C1 (as claimed): once the bridge has processed all events, the mirror of
\* every group equals the result of applying all ledger events exactly once
\* each in position order.
C1_NoLossAcrossBoundary ==
    BridgeSettled => members = ApplyAll(chain).members

\* C2 (as claimed): when MemberUpdated(G, old -> new) follows MemberAdded(G, old)
\* in the ledger (and no other event brings new into G), the mirror of G holds
\* new only if it has held old.
C2_UpdateNeverBeforeAdd ==
    \A i \in DOMAIN chain, j \in DOMAIN chain :
        (/\ i < j
         /\ chain[i].kind = "MemberAdded" /\ chain[j].kind = "MemberUpdated"
         /\ chain[i].g = chain[j].g /\ chain[i].cs = chain[j].cs
         /\ \A x \in DOMAIN chain :
               x # j => /\ chain[x].nw # chain[j].nw
                        /\ chain[x].kind \in {"MemberAdded", "MembersAdded"}
                              => chain[j].nw \notin Range(chain[x].cs))
        => (ToStr(chain[j].nw) \in Range(members[ToStr(chain[j].g)])
               => ToStr(chain[j].cs[1]) \in had[ToStr(chain[j].g)])

\* C3 (as claimed): a registered wait for (G, C), C supplied, is resolved only
\* once a member event with group id G and commitment C has been emitted.
C3_ResolvesOnlyOnExactMatch ==
    \A i \in DOMAIN waits :
        (waits[i].reg /\ waits[i].c # Undefined /\ waits[i].done) => waits[i].matched

\* C4 (as claimed): a call made while an earlier wait is pending is not
\* resolved before a member event with its own (group, commitment) was emitted.
C4_NoResolveWithoutEvent ==
    \A i \in DOMAIN waits :
        (~waits[i].reg /\ ~Falsy(waits[i].c) /\ waits[i].done) => waits[i].matched

\* In every state: a registered wait reaches resolve() at most once; from
\* then on its handler is attached to none of the three member events
\* and the flag is down, and while it is pending the handler is attached to
\* all three; a call made with the flag down registers a fresh wait.
C5_State ==
    /\ \A i \in DOMAIN waits :
          waits[i].reg =>
             /\ waits[i].fired <= 1
             /\ waits[i].done = (waits[i].fired = 1)
             /\ waits[i].done => \A n \in MemberEventNames : i \notin lst[n]
             /\ ~waits[i].done => /\ \A n \in MemberEventNames : i \in lst[n]
                                  /\ ~waits[i].matched
    /\ isWaitingForMemberEvent = (\E i \in DOMAIN waits : waits[i].reg /\ ~waits[i].done)

C5_Step ==
    /\ \A i \in DOMAIN waits :
          (waits[i].reg /\ ~waits[i].done /\ waits'[i].done) => ~isWaitingForMemberEvent'
    /\ (~isWaitingForMemberEvent /\ Len(waits') = Len(waits) + 1)
          => (waits'[Len(waits')].reg /\ ~waits'[Len(waits')].done)

\* C5: each registered wait resolves exactly once, on the first matching
\* event, is detached from the three member events with the flag lowered at
\* that moment, and a later call then registers a fresh wait.
C5_ResolvesExactlyOnce == []C5_State /\ [][C5_Step]_vars

\* A wait was resolved by an event and a later call registered a fresh one.
C5_Witness ==
    \E i \in DOMAIN waits, j \in DOMAIN waits :
        i < j /\ waits[i].reg /\ waits[i].fired = 1 /\ waits[j].reg

\* C6: if hasMember returned true, no add-member request is sent, no wait is
\* created (no handler attached, flag down), and the workflow goes on to
\* load the mirror and build the proofs.
C6_MemberShortCircuit ==
    alreadyMember =>
        /\ PostsTo("add-member") = {}
        /\ waits = <<>>
        /\ \A n \in MemberEventNames : lst[n] = {}
        /\ ~isWaitingForMemberEvent
        /\ cpc \in {"load", "joinGen", "joinPost", "mod", "modGen", "modPost", "done", "failed"}

\* hasMember returned true and the workflow is building the join proof.
C6_Witness == alreadyMember /\ cpc = "joinGen"

\* C7 (as claimed): whenever the workflow has read the mirror, the list it
\* loaded for its group holds its own commitment.
C7_ReadAfterEvent == MirrorRead => Mine \in Range(group)

\* A deltaw the claim is about: a number that is no safe integer, or an
\* element that is neither bigint, number nor string.
Rejectable(d) ==
    \E i \in DOMAIN d :
        \/ d[i].t = "number" /\ ~isSafeInteger(d[i])
        \/ d[i].t \notin {"bigint", "number", "string"}

\* C8: sendModTrainProof with such a deltaw fails with an error before
\* generateProof is called and before any request is sent.
C8_RejectedBeforeAnyWork ==
    Rejectable(deltaw) =>
        /\ nGen = 0
        /\ posts = <<>>
        /\ cpc \in {"mod", "failed"}
        /\ cpc = "failed" => err # None

\* The call failed on an unsafe number although the commitment is in the group.
C8_Witness ==
    /\ Rejectable(deltaw) /\ indexOf(group, MyCommitment) # -1
    /\ cpc = "failed" /\ err = "Unsafe number in deltaw"

\* A step that sends a request: whatever the outcome, the workflow takes the
\* step it takes after a success: add-member -> the wait, join-proof -> the
\* model-update proof, modtrain-proof -> the end; no error is raised.
C9_Step ==
    Len(posts') > Len(posts) =>
        LET p == posts'[Len(posts')] IN
        /\ err' = None
        /\ p.url = "add-member" => cpc' = "waitCall"
        /\ p.url = "join-proof" => cpc' = "mod"
        /\ p.url = "modtrain-proof" => cpc' = "done"

\* C9: a failed network submission (add-member, join-proof, modtrain-proof)
\* does not abort the workflow: the next step is the one taken after a success.
C9_SubmissionFailureContinues == [][C9_Step]_vars

\* The add-member and the join-proof request both failed and the workflow
\* still went through the model-update proof to its end.
C9_Witness ==
    /\ cpc = "done"
    /\ \E i \in PostsTo("add-member") : ~posts[i].ok
    /\ \E i \in PostsTo("join-proof") : ~posts[i].ok
    /\ PostsTo("modtrain-proof") # {}

\* C10: if the caller's commitment is absent from the group built from the
\* mirror, sendJoinProof fails before any proof is generated or request
\* sent, and the run sends neither a join-proof nor a modtrain-proof request.
C10_AbsentCommitmentAborts ==
    /\ cpc \in {"joinGen", "joinPost", "mod", "modGen", "modPost", "done"} => Mine \in Range(group)
    /\ (MirrorRead /\ Mine \notin Range(group)) =>
          /\ cpc = "failed" /\ err = NotFound
          /\ nGen = 0
          /\ PostsTo("join-proof") = {} /\ PostsTo("modtrain-proof") = {}

\* The mirror was read without the caller's commitment and the run failed.
C10_Witness == cpc = "failed" /\ err = NotFound /\ Mine \notin Range(group)

\* How often x occurs in a list.
Occurrences(seq, x) == Cardinality({i \in DOMAIN seq : seq[i] = x})

\* The positions the handlers were called on in the step now taken.
NewlyApplied == {applied'[i] : i \in (Len(applied) + 1)..Len(applied')}

\* The event at position p has met its handler twice: in an earlier run and
\* in this one, or twice in this one.
AppliedTwice(log, p) ==
    \/ p <= prior /\ p \in Range(log)
    \/ Cardinality({i \in DOMAIN log : log[i] = p}) >= 2

\* On any mirror the program reaches, a second call of the MemberAdded
\* handler on the same event changes nothing, and leaves one occurrence.
C11_State ==
    \A p \in DOMAIN chain :
        chain[p].kind = "MemberAdded" =>
            LET g == ToStr(chain[p].g)
                c == ToStr(chain[p].cs[1])
                once == onMemberAdded(Bus, chain[p]).members
                twice == onMemberAdded(onMemberAdded(Bus, chain[p]), chain[p]).members
            IN  /\ twice = once
                /\ Occurrences(members[g], c) <= 1 => Occurrences(twice[g], c) = 1

\* A step in which a MemberAdded event meets its handler a second time
\* leaves exactly one occurrence of its commitment.
C11_Step ==
    \A p \in NewlyApplied :
        (chain[p].kind = "MemberAdded" /\ AppliedTwice(applied', p))
            => Occurrences(members'[ToStr(chain[p].g)], ToStr(chain[p].cs[1])) = 1

\* C11: applying the same MemberAdded(G, index, C) event twice leaves the
\* mirror of G with exactly one occurrence of C.
C11_AddTwiceOneOccurrence == []C11_State /\ [][C11_Step]_vars

\* A restart replayed a MemberAdded event that the earlier run had already
\* mirrored, and the mirror holds its commitment once.
C11_Witness ==
    \E p \in Range(applied) :
        /\ chain[p].kind = "MemberAdded" /\ p <= prior
        /\ Occurrences(members[ToStr(chain[p].g)], ToStr(chain[p].cs[1])) = 1

\* C12 (as claimed): in every reachable state no group's mirror list holds
\* the same commitment twice.
C12_NoDuplicateCommitment ==
    \A g \in GroupStrs : \A i, j \in DOMAIN members[g] :
        members[g][i] = members[g][j] => i = j

\* C13 (as claimed): the bridge's handlers meet the events of all kinds in
\* non-decreasing position order: none is applied after one of strictly
\* greater position.
C13_AppliedInPositionOrder ==
    \A i, j \in DOMAIN applied : i < j => applied[i] <= applied[j]

\* The bridge has emitted MemberAddedProcessed for main's own group and
\* commitment after main sent its add-member request.
AdmissionEmitted ==
    \E x \in emitted :
        x.name = "MemberAddedProcessed" /\ x.g = gid /\ x.c = Mine /\ x.after

\* C14 (as claimed): if main has sent its add-member request and the bridge
\* emits MemberAddedProcessed for the same group and commitment at any time
\* after, main's wait eventually resolves and main goes on to the proofs.
\* A run in which the bridge's startup fails, or which ends at the longest
\* ledger explored, is not held against the claim.
C14_AdmissionResolvesWait ==
    AdmissionEmitted ~>
        (cpc \notin {"waitCall", "waiting"} \/ bphase = "failed" \/ Len(chain) = MaxChain)

\* C15 (as claimed): the wait main makes after its add-member request is
\* resolved only by a MemberAddedProcessed or a MemberUpdatedProcessed event
\* for its group and commitment, never by an event of another kind.
C15_ResolvedOnlyByAdmission ==
    \A i \in DOMAIN waits :
        (waits[i].reg /\ waits[i].done) =>
            /\ waits[i].by \in {"MemberAddedProcessed", "MemberUpdatedProcessed"}
            /\ waits[i].matched

\* The member event the bridge is to emit for a ledger event and one of
\* the commitments it brings.
NormalizedName(kind) ==
    CASE kind = "MemberAdded" -> "MemberAddedProcessed"
      [] kind = "MembersAdded" -> "MemberAddedProcessed"
      [] kind = "MemberRemoved" -> "MemberRemovedProcessed"
      [] kind = "MemberUpdated" -> "MemberUpdatedProcessed"

Brought(e) == IF e.kind = "MemberUpdated" THEN {e.nw} ELSE Range(e.cs)

\* C16 (as claimed): every member event of the ledger that the bridge has
\* applied has had its normalized event emitted: for every commitment C that
\* a MemberAdded or a MembersAdded brought into group G,
\* MemberAddedProcessed(G, C) was emitted.
C16_AppliedIsEmitted ==
    \A i \in DOMAIN applied :
        LET e == chain[applied[i]] IN
        e.kind # "GroupCreated" =>
            \A c \in Brought(e) :
                \E x \in emitted :
                    x.name = NormalizedName(e.kind) /\ x.g = ToStr(e.g) /\ x.c = ToStr(c)

\* C17 (as claimed): no kind is subscribed, and no listener has anything
\* to deliver, while the backfill of any kind is still outstanding.
C17_SubscribeAfterAllBackfill ==
    bk <= NKinds => (subs = {} /\ \A k \in 1..NKinds : live[k] = <<>>)

\* C19 (as claimed): startup aborts on a failed backfill query only after
\* the query was tried again: more queryFilter calls were issued than kinds
\* were started.
C19_AbortOnlyAfterRetry == bphase = "failed" => nQuery > bk

\* C18: in every run of main, the hasMember check precedes any add-member
\* request; the add-member request precedes the wait; the mirror is loaded
\* only after the check, and the wait if there is one, have completed; the
\* join-proof request is sent before the model-update proof is generated;
\* and the modtrain-proof request is sent only after the join-proof request
\* has completed, whatever its outcome.
C18_StepsInOrder ==
    /\ PostsTo("add-member") # {} =>
          /\ cpc \notin {"waitGroup", "check"}
          /\ ~alreadyMember /\ err # "hasMember failed"
    /\ waits # <<>> => PostsTo("add-member") # {}
    /\ (MirrorRead \/ nGen > 0) =>
          /\ cpc \notin {"waitGroup", "check", "addMember", "waitCall", "waiting"}
          /\ err # "hasMember failed"
          /\ \A i \in DOMAIN waits : waits[i].done
    /\ nGen >= 2 => PostsTo("join-proof") # {}
    /\ \A i \in PostsTo("modtrain-proof") : \E j \in PostsTo("join-proof") : j < i
    /\ \A i \in PostsTo("join-proof") : \A j \in PostsTo("add-member") : j < i

\* A run that went through every step: the check, the add-member request,
\* the wait, both proofs and both proof requests, the join-proof one failing.
C18_Witness ==
    /\ cpc = "done" /\ nGen = 2
    /\ PostsTo("add-member") # {} /\ waits # <<>>
    /\ \E j \in PostsTo("join-proof") : ~posts[j].ok
    /\ PostsTo("modtrain-proof") # {}

\* C20: whenever the bridge emits MemberAddedProcessed(G, C) or
\* MemberUpdatedProcessed(G, C), the in-memory mirror of G already holds C,
\* and whenever it emits MemberRemovedProcessed(G, C), it holds C no more.
C20_MutateBeforePublish ==
    \A x \in emitted :
        /\ x.name \in {"MemberAddedProcessed", "MemberUpdatedProcessed"} => x.held
        /\ x.name = "MemberRemovedProcessed" => ~x.held

\* The bridge has emitted an admission and a removal, and a listener was
\* attached when it did: a wait was resolved by the removal.
C20_Witness ==
    /\ \E x \in emitted : x.name = "MemberAddedProcessed" /\ x.held
    /\ \E x \in emitted : x.name = "MemberRemovedProcessed" /\ ~x.held
    /\ \E i \in DOMAIN waits : waits[i].by = "MemberRemovedProcessed"

====
